---- MODULE Spec2Model ----
(***************************************************************************)
(* Model of app.py: the photo ingestion threads (process_file), the        *)
(* in-memory store face_database, the persisted store database.pkl         *)
(* (load_database / save_database) and the query handler home().           *)
(***************************************************************************)
EXTENDS Integers, Sequences, FiniteSets, TLC

VARIABLES
    face_database,  \* the global list of {'path', 'embedding'} records
    db_file,        \* database.pkl: <<>> when missing, <<cells>> when present
    tasks,          \* one entry per thread started by on_created
    crashed,        \* the process was killed
    temp_file,      \* temp_selfie.jpg: <<>> when missing, <<image>> when present
    queries,        \* one entry per request served by home()
    main            \* position of a single-threaded load/save run

vars == <<face_database, db_file, tasks, crashed, temp_file, queries, main>>

(***************************************************************************)
(* Bounds                                                                  *)
(***************************************************************************)
MaxTasks == 2          \* threads started by the watcher
MaxStore == 2          \* records of an enumerated store
MaxQueryFaces == 2     \* faces of an uploaded selfie
MaxCells == 3          \* cells of an enumerated file
MaxQueries == 2        \* requests served by home()
MaxListing == 2        \* files in incoming_photos when the process starts

TaskIds == 1..MaxTasks
QueryIds == 1..MaxQueries

(***************************************************************************)
(* Filenames are sequences of characters; embeddings are integer vectors.  *)
(***************************************************************************)
A_JPG == <<"a", ".", "j", "p", "g">>
B_JPG == <<"b", ".", "j", "p", "g">>
C_JPG == <<"c", ".", "j", "p", "g">>
A_TMP == <<"a", ".", "t", "m", "p">>
OLD_JPG == <<"o", ".", "j", "p", "g">>

EventNames == {A_JPG, B_JPG, C_JPG, A_TMP}

V10 == <<1, 0>>
V01 == <<0, 1>>
V34 == <<3, 4>>
Vectors == {V10, V01, V34}

Range(s) == {s[i] : i \in 1..Len(s)}

SeqsUpTo(S, n) == UNION {[1..k -> S] : k \in 0..n}

Entry(filename, vec) == [path |-> filename, embedding |-> vec]

(***************************************************************************)
(* The pictures in incoming_photos: what DeepFace.represent finds in each  *)
(* file.  An empty sequence is a picture without a face, for which         *)
(* represent(enforce_detection=True) raises ValueError.                    *)
(***************************************************************************)
FacesIn(filename) ==
    CASE filename = A_JPG -> <<V10>>
      [] filename = B_JPG -> <<V01, V34>>
      [] filename = OLD_JPG -> <<V10>>
      [] OTHER -> <<>>

D_JPG == <<"d", ".", "j", "p", "g">>
E_JPG == <<"e", ".", "j", "p", "g">>

\* the exception DeepFace.represent raises for a file: ValueError when it
\* detects no face, another one when it cannot read the picture
RaisesIn(filename) ==
    CASE filename = C_JPG -> "ValueError"
      [] filename = D_JPG -> "Exception"
      [] OTHER -> "none"

\* a fallback that stores a zero vector for a picture that failed
GenerateWithDefault(filename) ==
    IF RaisesIn(filename) # "none" THEN <<(<<0, 0>>)>> ELSE FacesIn(filename)

\* generate_embedding: None (modelled <<>>) when represent raises, else its result
generate_embedding(filename) ==
    IF RaisesIn(filename) # "none" THEN <<>> ELSE FacesIn(filename)

(***************************************************************************)
(* database.pkl as a sequence of cells: one cell per pickled list item,    *)
(* closed by the STOP opcode.  A hole is a run of zero bytes left by a     *)
(* write behind the end of the file.                                       *)
(***************************************************************************)
ItemCell(e) == [kind |-> "item", path |-> e.path, embedding |-> e.embedding]
StopCell == [kind |-> "stop", path |-> <<>>, embedding |-> <<>>]
HoleCell == [kind |-> "hole", path |-> <<>>, embedding |-> <<>>]

\* write(2) of one cell at offset off (0-based) through a descriptor of its own
WriteAt(cells, off, c) ==
    [i \in 1..(IF off + 1 > Len(cells) THEN off + 1 ELSE Len(cells)) |->
        IF i = off + 1 THEN c
        ELSE IF i <= Len(cells) THEN cells[i]
        ELSE HoleCell]

RECURSIVE DumpShort(_, _, _)
\* a dump that closes the list one item early
DumpShort(cells, db, i) ==
    IF i >= Len(db) THEN WriteAt(cells, i - 1, StopCell)
    ELSE DumpShort(WriteAt(cells, i - 1, ItemCell(db[i])), db, i + 1)

RECURSIVE DumpFrom(_, _, _)
\* pickle.dump by one writer with nothing else running: items from index i on
DumpFrom(cells, db, i) ==
    IF i > Len(db) THEN WriteAt(cells, i - 1, StopCell)
    ELSE DumpFrom(WriteAt(cells, i - 1, ItemCell(db[i])), db, i + 1)

\* save_database run to its end by the only running thread
SaveAlone(db) == <<DumpFrom(<<>>, db, 1)>>

\* index of the first cell that is not an item, 0 when there is none
FirstNonItem(cells) ==
    IF \E i \in 1..Len(cells) : cells[i].kind # "item"
    THEN CHOOSE i \in 1..Len(cells) :
            /\ cells[i].kind # "item"
            /\ \A j \in 1..(i - 1) : cells[j].kind = "item"
    ELSE 0

\* pickle.load raises unless the items are closed by STOP; bytes after STOP are not read
UnpickleOk(cells) ==
    /\ FirstNonItem(cells) > 0
    /\ cells[FirstNonItem(cells)].kind = "stop"

Unpickle(cells) ==
    [i \in 1..(FirstNonItem(cells) - 1) |-> Entry(cells[i].path, cells[i].embedding)]

\* a load that keeps the items read before the failure
LoadLenient(file, db) ==
    IF file = <<>> THEN db
    ELSE LET cells == file[1]
             n == IF FirstNonItem(cells) = 0 THEN Len(cells)
                  ELSE FirstNonItem(cells) - 1
         IN [i \in 1..n |-> Entry(cells[i].path, cells[i].embedding)]

\* load_database: the value of face_database after the call
LoadResult(file, db) ==
    IF file = <<>> THEN db
    ELSE IF UnpickleOk(file[1]) THEN Unpickle(file[1])
    ELSE <<>>

(***************************************************************************)
(* process_file, one thread per creation event                             *)
(***************************************************************************)
StartsWith(s, p) == Len(s) >= Len(p) /\ SubSeq(s, 1, Len(p)) = p
EndsWith(s, p) == Len(s) >= Len(p) /\ SubSeq(s, Len(s) - Len(p) + 1, Len(s)) = p

\* a filter with its test turned round
FilteredInverted(filename) ==
    ~(StartsWith(filename, <<".">>) \/ EndsWith(filename, <<".", "t", "m", "p">>))

\* line 58
Filtered(filename) ==
    StartsWith(filename, <<".">>) \/ EndsWith(filename, <<".", "t", "m", "p">>)

\* a store that keeps one record per distinct entry
ListAppendUnique(db, e) == IF e \in Range(db) THEN db ELSE Append(db, e)

\* an insertion at the head of the list
ListPrepend(db, e) == <<e>> \o db

\* list.append, atomic under the interpreter lock
ListAppend(db, e) == Append(db, e)

NoTask == [pc |-> "unborn", filename |-> <<>>, results |-> <<>>, i |-> 0, off |-> 0]

InFlight(t) == tasks[t].pc \notin {"unborn", "done", "raised"}

Running == ~crashed /\ main.pc = "serve"

INPUT_FOLDER == <<"incoming_photos">>

\* os.path.basename of a path inside the watched folder
Basename(src_path) == src_path[2]

FirstUnborn ==
    CHOOSE u \in TaskIds :
        /\ tasks[u].pc = "unborn"
        /\ \A w \in TaskIds : tasks[w].pc = "unborn" => u <= w

\* a handler that runs process_file itself: it takes no event while a file
\* is being processed
OnCreatedBlocking(event) ==
    /\ Running
    /\ \A t \in TaskIds : ~InFlight(t)
    /\ IF event.is_directory THEN UNCHANGED tasks
       ELSE /\ \E t \in TaskIds : tasks[t].pc = "unborn"
            /\ tasks' = [tasks EXCEPT ![FirstUnborn] =
                             [NoTask EXCEPT !.pc = "start",
                                            !.filename = Basename(event.src_path)]]
    /\ UNCHANGED <<face_database, db_file, crashed, temp_file, queries, main>>

\* on_created: a directory event is ignored, a file event starts a thread
OnCreatedEvent(event) ==
    /\ Running
    /\ IF event.is_directory THEN UNCHANGED tasks
       ELSE /\ \E t \in TaskIds : tasks[t].pc = "unborn"
            /\ tasks' = [tasks EXCEPT ![FirstUnborn] =
                             [NoTask EXCEPT !.pc = "start",
                                            !.filename = Basename(event.src_path)]]
    /\ UNCHANGED <<face_database, db_file, crashed, temp_file, queries, main>>

OnCreatedFrom(names) ==
    \E is_directory \in BOOLEAN, name \in names :
        OnCreatedEvent([is_directory |-> is_directory,
                        src_path |-> <<INPUT_FOLDER, name>>])

OnCreated == OnCreatedFrom(EventNames)

\* lines 58-60: the filter, then the settle delay
ProcessStart(t) ==
    /\ Running
    /\ tasks[t].pc = "start"
    /\ tasks' = [tasks EXCEPT ![t].pc =
                    IF Filtered(tasks[t].filename) THEN "done" ELSE "sleep"]
    /\ UNCHANGED <<face_database, db_file, crashed, temp_file, queries, main>>

\* lines 60-65: the delay is over; generate_embedding; if results
Extract(t) ==
    /\ Running
    /\ tasks[t].pc = "sleep"
    /\ LET results == generate_embedding(tasks[t].filename)
       IN tasks' = [tasks EXCEPT ![t].results = results,
                                 ![t].pc = IF results # <<>> THEN "append" ELSE "done"]
    /\ UNCHANGED <<face_database, db_file, crashed, temp_file, queries, main>>

\* lines 67-72: one pass of the loop
AppendFace(t) ==
    /\ Running
    /\ tasks[t].pc = "append"
    /\ tasks[t].i < Len(tasks[t].results)
    /\ face_database' = ListAppend(face_database,
                            Entry(tasks[t].filename, tasks[t].results[tasks[t].i + 1]))
    /\ tasks' = [tasks EXCEPT ![t].i = @ + 1,
                              ![t].pc = IF tasks[t].i + 1 = Len(tasks[t].results)
                                        THEN "open" ELSE "append"]
    /\ UNCHANGED <<db_file, crashed, temp_file, queries, main>>

\* line 37: open(DB_FILE, 'wb') truncates the file, or raises
SaveOpen(t) ==
    /\ Running
    /\ tasks[t].pc = "open"
    /\ \E ok \in BOOLEAN :
        IF ok
        THEN /\ db_file' = <<(<<>>)>>
             /\ tasks' = [tasks EXCEPT ![t].pc = "write", ![t].off = 0]
        ELSE /\ tasks' = [tasks EXCEPT ![t].pc = "raised"]
             /\ UNCHANGED db_file
    /\ UNCHANGED <<face_database, crashed, temp_file, queries, main>>

\* line 38: pickle.dump walks the live list and writes it item by item at
\* this descriptor's own offset, or raises (disk full); at the end of the
\* list it puts STOP into the buffer and returns
SaveWrite(t) ==
    /\ Running
    /\ tasks[t].pc = "write"
    /\ LET cells == db_file[1]
           off == tasks[t].off
       IN \E ok \in BOOLEAN :
          IF ~ok
          THEN /\ tasks' = [tasks EXCEPT ![t].pc = "raised", ![t].off = 0]
               /\ UNCHANGED db_file
          ELSE IF off < Len(face_database)
          THEN /\ db_file' = <<WriteAt(cells, off, ItemCell(face_database[off + 1]))>>
               /\ tasks' = [tasks EXCEPT ![t].off = off + 1]
          ELSE /\ tasks' = [tasks EXCEPT ![t].pc = "close"]
               /\ UNCHANGED db_file
    /\ UNCHANGED <<face_database, crashed, temp_file, queries, main>>

\* line 37, the end of the with block: pickle.dump has returned with STOP in
\* the buffer of the file object; close() writes it out, or raises
SaveClose(t) ==
    /\ Running
    /\ tasks[t].pc = "close"
    /\ \E ok \in BOOLEAN :
          IF ok
          THEN /\ db_file' = <<WriteAt(db_file[1], tasks[t].off, StopCell)>>
               /\ tasks' = [tasks EXCEPT ![t].pc = "done", ![t].off = 0]
          ELSE /\ tasks' = [tasks EXCEPT ![t].pc = "raised", ![t].off = 0]
               /\ UNCHANGED db_file
    /\ UNCHANGED <<face_database, crashed, temp_file, queries, main>>

\* the process is killed
Crash ==
    /\ Running
    /\ crashed' = TRUE
    /\ UNCHANGED <<face_database, db_file, tasks, temp_file, queries, main>>

(***************************************************************************)
(* home(): the query handler                                               *)
(***************************************************************************)
MatchPct == 40      \* line 132: score < 0.40

RECURSIVE Dot(_, _, _)
Dot(u, v, n) == IF n = 0 THEN 0 ELSE u[n] * v[n] + Dot(u, v, n - 1)

\* scipy cosine(u, v) = 1 - u.v / sqrt(u.u * v.v), compared without the root:
\* cosine(u, v) < pct / 100; a zero vector gives nan, which is below nothing
ScoreBelow(u, v, pct) ==
    LET uv == Dot(u, v, Len(u))
        uu == Dot(u, u, Len(u))
        vv == Dot(v, v, Len(v))
    IN /\ uu * vv > 0
       /\ uv > 0
       /\ 10000 * uv * uv > (100 - pct) * (100 - pct) * uu * vv

ScoreEqual(u, v, pct) ==
    LET uv == Dot(u, v, Len(u))
        uu == Dot(u, u, Len(u))
        vv == Dot(v, v, Len(v))
    IN /\ uu * vv > 0
       /\ uv > 0
       /\ 10000 * uv * uv = (100 - pct) * (100 - pct) * uu * vv

\* a comparison that lets the threshold itself through
IsMatchInclusive(u, v) == ScoreBelow(u, v, MatchPct) \/ ScoreEqual(u, v, MatchPct)

\* line 132
IsMatch(u, v) == ScoreBelow(u, v, MatchPct)

\* line 136: list(set(matches)), in whatever order the set yields
DedupOrders(m) ==
    LET S == Range(m)
    IN {s \in [1..Cardinality(S) -> S] : Range(s) = S}

NoImage == [kind |-> "none", faces |-> <<>>]
CorruptImage == [kind |-> "corrupt", faces |-> <<>>]
Photo(faces) == [kind |-> "photo", faces |-> faces]

NoQuery == [pc |-> "off", searched |-> FALSE, upload |-> NoImage, selfie |-> <<>>,
            fi |-> 0, ei |-> 0, matches |-> <<>>, err |-> "none", status |-> 0,
            len0 |-> 0, len1 |-> 0]

IdleQuery == [NoQuery EXCEPT !.pc = "idle"]

\* line 146: render_template with the matches
Respond(qr) == [qr EXCEPT !.pc = "responded", !.status = 200,
                          !.len1 = Len(face_database)]

\* an exception leaves home(): the request ends with status 500
Abort(qr) == [qr EXCEPT !.pc = "crashed", !.status = 500,
                        !.len1 = Len(face_database)]

\* lines 88-95: a GET, a POST without a file, or a POST with an uploaded image
QBegin(q, images) ==
    /\ Running
    /\ queries[q].pc = "idle"
    /\ \E post \in BOOLEAN, file \in {NoImage} \cup images :
        LET qr == [queries[q] EXCEPT !.searched = post,
                                     !.len0 = Len(face_database)]
        IN queries' = [queries EXCEPT ![q] =
               IF post /\ file.kind # "none"
               THEN [qr EXCEPT !.pc = "save", !.upload = file]
               ELSE Respond(qr)]
    /\ UNCHANGED <<face_database, db_file, tasks, crashed, temp_file, main>>

\* line 101: file.save(temp_path), outside the try
QSave(q) ==
    /\ Running
    /\ queries[q].pc = "save"
    /\ \E ok \in BOOLEAN :
        IF ok
        THEN /\ temp_file' = <<queries[q].upload>>
             /\ queries' = [queries EXCEPT ![q].pc = "represent"]
        ELSE /\ queries' = [queries EXCEPT ![q] =
                                Abort([queries[q] EXCEPT !.err = "save"])]
             /\ UNCHANGED temp_file
    /\ UNCHANGED <<face_database, db_file, tasks, crashed, main>>

\* lines 105-112: DeepFace.represent reads temp_selfie.jpg as it is now
QRepresent(q) ==
    /\ Running
    /\ queries[q].pc = "represent"
    /\ queries' = [queries EXCEPT ![q] =
         IF temp_file = <<>> \/ temp_file[1].kind # "photo"
         THEN [queries[q] EXCEPT !.err = "represent", !.pc = "exists"]
         ELSE IF temp_file[1].faces = <<>>
         THEN [queries[q] EXCEPT !.pc = "exists"]
         ELSE [queries[q] EXCEPT !.selfie = temp_file[1].faces,
                                 !.fi = 1, !.ei = 0, !.pc = "scan"]]
    /\ UNCHANGED <<face_database, db_file, tasks, crashed, temp_file, main>>

\* lines 114-136: one step of the two loops; both iterate by index over the
\* live lists, so the inner one sees records appended while it runs
QScan(q) ==
    /\ Running
    /\ queries[q].pc = "scan"
    /\ LET qr == queries[q]
           target_vector == qr.selfie[qr.fi]
       IN IF qr.ei < Len(face_database)
          THEN LET entry == face_database[qr.ei + 1]
               IN queries' = [queries EXCEPT ![q] =
                     [qr EXCEPT !.ei = qr.ei + 1,
                                !.matches =
                                    IF IsMatch(target_vector, entry.embedding)
                                    THEN Append(qr.matches, entry.path)
                                    ELSE qr.matches]]
          ELSE IF qr.fi < Len(qr.selfie)
          THEN queries' = [queries EXCEPT ![q] = [qr EXCEPT !.fi = qr.fi + 1, !.ei = 0]]
          ELSE \E m \in DedupOrders(qr.matches) :
                  queries' = [queries EXCEPT ![q] =
                                 [qr EXCEPT !.matches = m, !.pc = "exists"]]
    /\ UNCHANGED <<face_database, db_file, tasks, crashed, temp_file, main>>

\* lines 123-134 raise inside the try (the distance or a print fails):
\* line 141 catches it and matches stays as it is
QScanRaise(q) ==
    /\ Running
    /\ queries[q].pc = "scan"
    /\ queries[q].ei < Len(face_database)
    /\ queries' = [queries EXCEPT ![q].err = "scan", ![q].pc = "exists"]
    /\ UNCHANGED <<face_database, db_file, tasks, crashed, temp_file, main>>

\* line 144: os.path.exists(temp_path)
QExists(q) ==
    /\ Running
    /\ queries[q].pc = "exists"
    /\ queries' = [queries EXCEPT ![q] =
         IF temp_file # <<>> THEN [queries[q] EXCEPT !.pc = "remove"]
         ELSE Respond(queries[q])]
    /\ UNCHANGED <<face_database, db_file, tasks, crashed, temp_file, main>>

\* line 144: os.remove(temp_path) raises when the file is gone
QRemove(q) ==
    /\ Running
    /\ queries[q].pc = "remove"
    /\ IF temp_file # <<>>
       THEN /\ temp_file' = <<>>
            /\ queries' = [queries EXCEPT ![q] = Respond(queries[q])]
       ELSE /\ queries' = [queries EXCEPT ![q] =
                               Abort([queries[q] EXCEPT !.err = "remove"])]
            /\ UNCHANGED temp_file
    /\ UNCHANGED <<face_database, db_file, tasks, crashed, main>>

(***************************************************************************)
(* Ingestion after startup: the store holds what the startup scan found.   *)
(***************************************************************************)
InitDb == <<Entry(OLD_JPG, V10)>>

Serving == [pc |-> "serve", saved |-> <<>>, ok |-> FALSE]

Init ==
    /\ face_database = InitDb
    /\ db_file = SaveAlone(InitDb)
    /\ tasks = [t \in TaskIds |-> NoTask]
    /\ crashed = FALSE
    /\ temp_file = <<>>
    /\ queries = [q \in QueryIds |-> NoQuery]
    /\ main = Serving

Next ==
    \/ OnCreated
    \/ \E t \in TaskIds : ProcessStart(t)
    \/ \E t \in TaskIds : Extract(t)
    \/ \E t \in TaskIds : AppendFace(t)
    \/ \E t \in TaskIds : SaveOpen(t)
    \/ \E t \in TaskIds : SaveWrite(t)
    \/ \E t \in TaskIds : SaveClose(t)
    \/ Crash

Spec == Init /\ [][Next]_vars

(***************************************************************************)
(* Ingestion with one query running beside it                              *)
(***************************************************************************)
QueryImages == {Photo(<<V10, V01>>), CorruptImage}

QInit ==
    /\ face_database = InitDb
    /\ db_file = SaveAlone(InitDb)
    /\ tasks = [t \in TaskIds |-> NoTask]
    /\ crashed = FALSE
    /\ temp_file = <<>>
    /\ queries = [q \in QueryIds |-> IF q = 1 THEN IdleQuery ELSE NoQuery]
    /\ main = Serving

QNext ==
    \/ OnCreated
    \/ \E t \in TaskIds : ProcessStart(t)
    \/ \E t \in TaskIds : Extract(t)
    \/ \E t \in TaskIds : AppendFace(t)
    \/ \E t \in TaskIds : SaveOpen(t)
    \/ \E t \in TaskIds : SaveWrite(t)
    \/ \E t \in TaskIds : SaveClose(t)
    \/ \E q \in QueryIds : QBegin(q, QueryImages)
    \/ \E q \in QueryIds : QSave(q)
    \/ \E q \in QueryIds : QRepresent(q)
    \/ \E q \in QueryIds : QScan(q)
    \/ \E q \in QueryIds : QScanRaise(q)
    \/ \E q \in QueryIds : QExists(q)
    \/ \E q \in QueryIds : QRemove(q)

QSpec == QInit /\ [][QNext]_vars

(***************************************************************************)
(* One query over a store that does not change                             *)
(***************************************************************************)
StoreEntries == {Entry(f, v) : f \in {A_JPG, B_JPG}, v \in Vectors}

Stores == SeqsUpTo(StoreEntries, MaxStore)

SearchImages == {Photo(f) : f \in SeqsUpTo(Vectors, MaxQueryFaces)} \cup {CorruptImage}

SearchInit ==
    /\ face_database \in Stores
    /\ db_file = SaveAlone(face_database)
    /\ tasks = [t \in TaskIds |-> NoTask]
    /\ crashed = FALSE
    /\ temp_file = <<>>
    /\ queries = [q \in QueryIds |-> IF q = 1 THEN IdleQuery ELSE NoQuery]
    /\ main = Serving

SearchNext ==
    \/ \E q \in QueryIds : QBegin(q, SearchImages)
    \/ \E q \in QueryIds : QSave(q)
    \/ \E q \in QueryIds : QRepresent(q)
    \/ \E q \in QueryIds : QScan(q)
    \/ \E q \in QueryIds : QScanRaise(q)
    \/ \E q \in QueryIds : QExists(q)
    \/ \E q \in QueryIds : QRemove(q)

SearchSpec == SearchInit /\ [][SearchNext]_vars

(***************************************************************************)
(* save_database and load_database with nothing else running: a save, the  *)
(* end of the process, and the load of the next start                      *)
(***************************************************************************)
FileCells == {ItemCell(Entry(A_JPG, V10)), ItemCell(Entry(B_JPG, V01)), StopCell, HoleCell}

EnumFiles == {<<>>} \cup {<<c>> : c \in SeqsUpTo(FileCells, MaxCells)}

OldFiles == {<<>>, <<(<<HoleCell>>)>>, SaveAlone(<<Entry(A_JPG, V10), Entry(A_JPG, V01),
                                                   Entry(B_JPG, V34), Entry(B_JPG, V10)>>)}

LoadInit ==
    /\ tasks = [t \in TaskIds |-> NoTask]
    /\ crashed = FALSE
    /\ temp_file = <<>>
    /\ queries = [q \in QueryIds |-> NoQuery]
    /\ \/ /\ main = [pc |-> "load", saved |-> <<>>, ok |-> FALSE]
          /\ face_database = <<>>
          /\ db_file \in EnumFiles
       \/ /\ main = [pc |-> "save", saved |-> <<>>, ok |-> FALSE]
          /\ face_database \in Stores \ {<<>>}
          /\ db_file \in OldFiles

\* lines 36-38 by the only thread: open fails, the dump fails after k items,
\* or the whole list is written
MainSave ==
    /\ main.pc = "save"
    /\ \/ /\ main' = [main EXCEPT !.pc = "raised"]
          /\ UNCHANGED db_file
       \/ \E k \in 0..Len(face_database) :
            /\ db_file' = <<SubSeq(SaveAlone(face_database)[1], 1, k)>>
            /\ main' = [main EXCEPT !.pc = "raised"]
       \/ /\ db_file' = SaveAlone(face_database)
          /\ main' = [main EXCEPT !.pc = "saved", !.saved = face_database, !.ok = TRUE]
    /\ UNCHANGED <<face_database, tasks, crashed, temp_file, queries>>

\* the process ends and starts again: line 24
Restart ==
    /\ main.pc \in {"saved", "raised"}
    /\ face_database' = <<>>
    /\ main' = [main EXCEPT !.pc = "load"]
    /\ UNCHANGED <<db_file, tasks, crashed, temp_file, queries>>

\* lines 26-34
MainLoad ==
    /\ main.pc = "load"
    /\ face_database' = LoadResult(db_file, face_database)
    /\ main' = [main EXCEPT !.pc = "loaded"]
    /\ UNCHANGED <<db_file, tasks, crashed, temp_file, queries>>

LoadNext == MainSave \/ Restart \/ MainLoad

LoadSpec == LoadInit /\ [][LoadNext]_vars

(***************************************************************************)
(* Properties of concurrent ingestion                                      *)
(***************************************************************************)
Finished(t) == tasks[t].pc \in {"done", "raised"}

AllFinished == \A t \in TaskIds : Finished(t)

\* the records process_file appends for task t
TaskEntries(t) ==
    [k \in 1..Len(tasks[t].results) |-> Entry(tasks[t].filename, tasks[t].results[k])]

Count(s, e) == Cardinality({i \in 1..Len(s) : s[i] = e})

RECURSIVE CountInTasks(_, _)
CountInTasks(n, e) ==
    IF n = 0 THEN 0 ELSE Count(TaskEntries(n), e) + CountInTasks(n - 1, e)

AllEntries == {Entry(f, v) : f \in EventNames \cup {OLD_JPG}, v \in Vectors}

\* past the filter and not yet ended: in the settle delay, the extraction,
\* the append loop or save_database
Ingesting(t) == tasks[t].pc \in {"sleep", "append", "open", "write", "close"}

\* inside the append loop or save_database
Mutating(t) ==
    \/ tasks[t].pc = "append" /\ tasks[t].i > 0
    \/ tasks[t].pc \in {"open", "write", "close"}

\* C1: events for a path that already has an ingestion task in flight start
\* no second task, so no two tasks for one path are in flight together and
\* have both added records.
C1_OneTaskPerPath ==
    \A t1, t2 \in TaskIds :
        (/\ Ingesting(t1) /\ Ingesting(t2)
         /\ tasks[t1].filename = tasks[t2].filename
         /\ tasks[t1].i > 0 /\ tasks[t2].i > 0)
            => t1 = t2

\* C2: once all tasks have finished, the store holds the initial records and
\* every record of every task, each exactly as often as it was appended.
C2_AppendSafety ==
    AllFinished =>
        /\ \A e \in AllEntries :
              Count(face_database, e) = Count(InitDb, e) + CountInTasks(MaxTasks, e)
        /\ \A e \in Range(face_database) : e \in AllEntries

\* two tasks have finished and their appends interleaved
C2_Witness ==
    /\ AllFinished
    /\ \E t \in TaskIds : tasks[t].filename = B_JPG
    /\ \E i \in 1..Len(face_database) :
         /\ i + 2 <= Len(face_database)
         /\ face_database[i].path = B_JPG
         /\ face_database[i + 1].path # B_JPG
         /\ face_database[i + 2].path = B_JPG

\* C3: at most one task is inside the append loop or save_database, also
\* when every task ingests a file of its own.
C3_MutationSerialized ==
    \A t1, t2 \in TaskIds :
        (Mutating(t1) /\ Mutating(t2) /\ tasks[t1].filename # tasks[t2].filename)
            => t1 = t2

\* no path was given to two tasks
DistinctPaths ==
    \A t1, t2 \in TaskIds :
        (tasks[t1].pc # "unborn" /\ tasks[t1].filename = tasks[t2].filename) => t1 = t2

\* C4: after a crash, loading database.pkl yields every record of every
\* file whose ingestion had completed, also when no event was a duplicate.
C4_CrashDurable ==
    (crashed /\ DistinctPaths) =>
        LET loaded == LoadResult(db_file, <<>>)
        IN \A t \in TaskIds : tasks[t].pc = "done" =>
              \A e \in Range(TaskEntries(t)) : e \in Range(loaded)

(***************************************************************************)
(* Properties of the query handler                                         *)
(***************************************************************************)
\* the references of the records of db within the threshold of some face
SearchOver(faces, db) ==
    {db[j].path : j \in {k \in 1..Len(db) :
        \E i \in 1..Len(faces) : ScoreBelow(faces[i], db[k].embedding, 40)}}

NoDuplicates(s) == \A i, j \in 1..Len(s) : s[i] = s[j] => i = j

\* C5: a query that ran without error returns the result of the search over
\* the store as it was at one moment between its start and its end.
C5_ConsistentSnapshot ==
    \A q \in QueryIds :
        (queries[q].pc = "responded" /\ queries[q].err = "none") =>
            \E n \in queries[q].len0..queries[q].len1 :
                Range(queries[q].matches) =
                    SearchOver(queries[q].selfie, SubSeq(face_database, 1, n))

\* C6: a scan that completes without error returns exactly the references
\* with a record at distance below 0.40 from some query face.
C6_UnionOfThresholdMatches ==
    \A q \in QueryIds :
        (queries[q].pc = "responded" /\ queries[q].err = "none"
            /\ queries[q].selfie # <<>>) =>
            Range(queries[q].matches) = SearchOver(queries[q].selfie, face_database)

\* two faces, each matching a different photo alone, and a record exactly at
\* the threshold of the first face
C6_Witness ==
    /\ queries[1].pc = "responded"
    /\ queries[1].err = "none"
    /\ queries[1].selfie = <<V10, V01>>
    /\ face_database = <<Entry(A_JPG, V10), Entry(B_JPG, V34)>>
    /\ Range(queries[1].matches) = {A_JPG, B_JPG}

\* C7: every response lists each photo reference at most once.
C7_NoDuplicateMatches ==
    \A q \in QueryIds :
        queries[q].pc = "responded" => NoDuplicates(queries[q].matches)

\* C8: a query in which a step failed ends with a response without matches.
C8_ErrorsGiveNoMatches ==
    \A q \in QueryIds :
        (queries[q].pc \in {"responded", "crashed"} /\ queries[q].err # "none") =>
            (queries[q].status = 200 /\ queries[q].matches = <<>>)

(***************************************************************************)
(* Properties of load_database and save_database                           *)
(***************************************************************************)
SnapshotEntries == {Entry(A_JPG, V10), Entry(B_JPG, V01)}

\* C9: after load_database at startup the store is empty when database.pkl
\* is missing, cut short or not a pickle, and it is the snapshot when the
\* file holds one.
C9_LoadResilience ==
    main.pc = "loaded" =>
        /\ db_file = <<>> => face_database = <<>>
        /\ \A S \in SeqsUpTo(SnapshotEntries, MaxCells) :
            LET P == SaveAlone(S)[1]
            IN /\ db_file = <<P>> => face_database = S
               /\ \A k \in 0..(Len(P) - 1) :
                     db_file = <<SubSeq(P, 1, k)>> => face_database = <<>>
        /\ (db_file # <<>> /\ \A i \in 1..Len(db_file[1]) : db_file[1][i].kind # "stop")
              => face_database = <<>>
        /\ (db_file # <<>> /\ db_file[1] # <<>> /\ db_file[1][1].kind = "hole")
              => face_database = <<>>

\* a file cut short after its first item was loaded
C9_Witness ==
    /\ main.pc = "loaded"
    /\ db_file = <<(<<ItemCell(Entry(A_JPG, V10))>>)>>
    /\ face_database = <<>>

\* C10: a store saved by save_database and loaded by the next start is the
\* same sequence of records.
C10_RoundTrip ==
    (main.pc = "loaded" /\ main.ok) => face_database = main.saved

\* a store of two different records went through save and load
C10_Witness ==
    /\ main.pc = "loaded"
    /\ main.ok
    /\ Len(main.saved) = 2
    /\ main.saved[1] # main.saved[2]
    /\ face_database = main.saved

(***************************************************************************)
(* The filter of process_file on the names of the directory                *)
(***************************************************************************)
DS_STORE == <<".", "D", "S", "_", "S", "t", "o", "r", "e">>
PHOTO_DNG == <<"p", "h", "o", "t", "o", ".", "d", "n", "g">>
PHOTO_JPG == <<"p", "h", "o", "t", "o", ".", "j", "p", "g">>
PHOTO_HEIC == <<"p", "h", "o", "t", "o", ".", "H", "E", "I", "C">>
NOTES_TXT == <<"n", "o", "t", "e", "s", ".", "t", "x", "t">>

FilterNames == {A_TMP, DS_STORE, PHOTO_DNG, PHOTO_JPG, PHOTO_HEIC, NOTES_TXT, A_JPG}

FilterNext ==
    \/ OnCreatedFrom(FilterNames)
    \/ \E t \in TaskIds : ProcessStart(t)
    \/ \E t \in TaskIds : Extract(t)
    \/ \E t \in TaskIds : AppendFace(t)
    \/ \E t \in TaskIds : SaveOpen(t)
    \/ \E t \in TaskIds : SaveWrite(t)
    \/ \E t \in TaskIds : SaveClose(t)

FilterSpec == Init /\ [][FilterNext]_vars

\* C11: a.tmp, .DS_Store and photo.dng never get past the filter: their task
\* reaches neither the settle delay nor the extraction; photo.jpg and
\* photo.HEIC pass it.
C11_NoiseFilter ==
    /\ \A t \in TaskIds :
         tasks[t].filename \in {A_TMP, DS_STORE, PHOTO_DNG}
            => tasks[t].pc \in {"start", "done"} /\ tasks[t].results = <<>>
    /\ ~Filtered(PHOTO_JPG)
    /\ ~Filtered(PHOTO_HEIC)

(***************************************************************************)
(* __main__: load_database, the clearing of the store, the scan of the     *)
(* directory by the main thread, then the watcher                          *)
(***************************************************************************)
ScanNames == {OLD_JPG, A_JPG, A_TMP}

\* os.listdir: the names in any order
Listings == {l \in SeqsUpTo(ScanNames, MaxListing) :
                \A i, j \in 1..Len(l) : l[i] = l[j] => i = j}

\* what an earlier run left in database.pkl
OldSnapshot == <<Entry(OLD_JPG, V10), Entry(A_JPG, V10)>>

StartFiles == {<<>>, <<(<<HoleCell>>)>>, SaveAlone(OldSnapshot)}

StartupEvents == {B_JPG}

\* the records process_file appends for one file
FileEntries(filename) ==
    LET results == IF Filtered(filename) THEN <<>> ELSE generate_embedding(filename)
    IN [k \in 1..Len(results) |-> Entry(filename, results[k])]

StartupInit ==
    /\ face_database = <<>>
    /\ db_file \in StartFiles
    /\ tasks = [t \in TaskIds |-> NoTask]
    /\ crashed = FALSE
    /\ temp_file = <<>>
    /\ queries = [q \in QueryIds |-> NoQuery]
    /\ \E l \in Listings :
          main = [pc |-> "boot", saved |-> LoadResult(db_file, <<>>),
                  ok |-> (db_file # <<>> /\ UnpickleOk(db_file[1])),
                  listing |-> l, k |-> 0]

\* line 170
BootLoad ==
    /\ main.pc = "boot"
    /\ face_database' = LoadResult(db_file, face_database)
    /\ main' = [main EXCEPT !.pc = "clear"]
    /\ UNCHANGED <<db_file, tasks, crashed, temp_file, queries>>

\* line 175
BootClear ==
    /\ main.pc = "clear"
    /\ face_database' = <<>>
    /\ main' = [main EXCEPT !.pc = "scan"]
    /\ UNCHANGED <<db_file, tasks, crashed, temp_file, queries>>

\* lines 176-177: process_file for the next name, in the main thread; an
\* exception of save_database leaves the loop and ends the program
ScanFile ==
    /\ main.pc = "scan"
    /\ main.k < Len(main.listing)
    /\ LET entries == FileEntries(main.listing[main.k + 1])
           db == face_database \o entries
       IN /\ face_database' = db
          /\ IF entries = <<>>
             THEN /\ main' = [main EXCEPT !.k = @ + 1]
                  /\ UNCHANGED db_file
             ELSE \/ /\ db_file' = SaveAlone(db)
                     /\ main' = [main EXCEPT !.k = @ + 1]
                  \/ /\ UNCHANGED db_file
                     /\ main' = [main EXCEPT !.pc = "died"]
                  \/ \E j \in 0..Len(db) :
                        /\ db_file' = <<SubSeq(SaveAlone(db)[1], 1, j)>>
                        /\ main' = [main EXCEPT !.pc = "died"]
    /\ UNCHANGED <<tasks, crashed, temp_file, queries>>

\* lines 179-181
StartWatcher ==
    /\ main.pc = "scan"
    /\ main.k = Len(main.listing)
    /\ main' = [main EXCEPT !.pc = "serve"]
    /\ UNCHANGED <<face_database, db_file, tasks, crashed, temp_file, queries>>

StartupNext ==
    \/ BootLoad
    \/ BootClear
    \/ ScanFile
    \/ StartWatcher
    \/ OnCreatedFrom(StartupEvents)
    \/ \E t \in TaskIds : ProcessStart(t)
    \/ \E t \in TaskIds : Extract(t)
    \/ \E t \in TaskIds : AppendFace(t)
    \/ \E t \in TaskIds : SaveOpen(t)
    \/ \E t \in TaskIds : SaveWrite(t)
    \/ \E t \in TaskIds : SaveClose(t)

StartupSpec == StartupInit /\ [][StartupNext]_vars

Loadable == db_file # <<>> /\ UnpickleOk(db_file[1])

\* C12 as claimed: with a valid snapshot on disk at the start, every record
\* of it is in the store once startup has completed, and a loadable
\* database.pkl holds every one of them.
C12_SnapshotSurvives ==
    (main.pc = "serve" /\ main.ok) =>
        \A e \in Range(main.saved) :
            /\ e \in Range(face_database)
            /\ Loadable => e \in Range(Unpickle(db_file[1]))

\* C12 amended: the same for the records of the snapshot whose photo is
\* still in the directory.
C12_PresentPhotosSurvive ==
    (main.pc = "serve" /\ main.ok) =>
        \A e \in Range(main.saved) :
            e.path \in Range(main.listing) =>
                /\ e \in Range(face_database)
                /\ Loadable => e \in Range(Unpickle(db_file[1]))

\* the photo of one record of the snapshot is gone, the other is there, and
\* a watcher task has rewritten the file after startup
C12_Witness ==
    /\ main.pc = "serve"
    /\ main.ok
    /\ main.listing = <<A_JPG>>
    /\ Entry(A_JPG, V10) \in Range(face_database)
    /\ \E t \in TaskIds : tasks[t].pc = "done" /\ tasks[t].results # <<>>
    /\ Loadable
    /\ Len(Unpickle(db_file[1])) = 3

(***************************************************************************)
(* Properties of the persisted file during ingestion                       *)
(***************************************************************************)
NoPersistFailed == \A t \in TaskIds : tasks[t].pc # "raised"

\* no task is between its first append and the end of save_database
Quiescent == \A t \in TaskIds : ~Mutating(t)

\* C13: whenever no task is between its first append and the end of its
\* save_database and no persist has failed, database.pkl holds exactly the
\* records of the store, in the same order.
C13_WriteThrough ==
    (~crashed /\ Quiescent /\ NoPersistFailed /\ DistinctPaths) =>
        (Loadable /\ Unpickle(db_file[1]) = face_database)

(***************************************************************************)
(* Files in which the provider finds no face                               *)
(***************************************************************************)
SkipNames == {C_JPG, D_JPG, E_JPG, A_JPG}

NoFaceNames == {C_JPG, D_JPG, E_JPG}

SkipNext ==
    \/ OnCreatedFrom(SkipNames)
    \/ \E t \in TaskIds : ProcessStart(t)
    \/ \E t \in TaskIds : Extract(t)
    \/ \E t \in TaskIds : AppendFace(t)
    \/ \E t \in TaskIds : SaveOpen(t)
    \/ \E t \in TaskIds : SaveWrite(t)
    \/ \E t \in TaskIds : SaveClose(t)

SkipSpec == Init /\ [][SkipNext]_vars

\* C14: no step of a task whose file has no usable face (empty result,
\* ValueError or another exception) changes the store or database.pkl, raises,
\* or starts or restarts a task; the task ends after the extraction.
C14_NoFaceChangesNothing ==
    [][\A t \in TaskIds :
          (tasks[t].filename \in NoFaceNames /\ tasks'[t] # tasks[t]) =>
              /\ face_database' = face_database
              /\ db_file' = db_file
              /\ tasks'[t].pc \in {"sleep", "done"}
              /\ tasks'[t].filename = tasks[t].filename
              /\ \A u \in TaskIds \ {t} : tasks'[u] = tasks[u]]_vars

\* a task whose extraction raised has ended while another task holds the
\* file open
C14_Witness ==
    /\ \E t \in TaskIds : tasks[t].filename = D_JPG /\ tasks[t].pc = "done"
    /\ \E t \in TaskIds : tasks[t].filename = A_JPG /\ tasks[t].pc = "write"

\* C15: a failure while one file is ingested leaves no other file
\* unprocessed: when save_database fails for a file of the startup scan, no
\* picture with faces is left behind it in the listing.
C15_ErrorContained ==
    main.pc = "died" =>
        \A j \in (main.k + 2)..Len(main.listing) : FileEntries(main.listing[j]) = <<>>

\* C16: once a persist has failed for a task, the next save_database that
\* succeeds leaves in database.pkl every record of the store, those of the
\* failed task included.
C16_SelfHealing ==
    [][\A t \in TaskIds :
          (/\ tasks[t].pc = "close" /\ tasks'[t].pc = "done"
           /\ DistinctPaths
           /\ \E u \in TaskIds : tasks[u].pc = "raised") =>
              (Loadable' /\ Unpickle(db_file[1])' = face_database')]_vars

(***************************************************************************)
(* The events the watcher delivers                                         *)
(***************************************************************************)
SUB_DIR == <<"s", "u", "b">>

DispatchEvents ==
    {[is_directory |-> TRUE, src_path |-> <<INPUT_FOLDER, SUB_DIR>>],
     [is_directory |-> FALSE, src_path |-> <<INPUT_FOLDER, A_JPG>>],
     [is_directory |-> FALSE, src_path |-> <<INPUT_FOLDER, B_JPG>>],
     [is_directory |-> FALSE, src_path |-> <<INPUT_FOLDER, C_JPG>>]}

DispatchNext ==
    \/ \E event \in DispatchEvents : OnCreatedEvent(event)
    \/ \E t \in TaskIds : ProcessStart(t)
    \/ \E t \in TaskIds : Extract(t)
    \/ \E t \in TaskIds : AppendFace(t)
    \/ \E t \in TaskIds : SaveOpen(t)
    \/ \E t \in TaskIds : SaveWrite(t)
    \/ \E t \in TaskIds : SaveClose(t)

DispatchSpec == Init /\ [][DispatchNext]_vars

\* the handler takes a file event and starts its thread
FileEventTaken ==
    \E event \in DispatchEvents :
        ~event.is_directory /\ OnCreatedEvent(event) /\ tasks' # tasks

\* C17: no directory event starts a task, and whatever the running tasks are
\* doing (settle delay, extraction, append, save) the handler can take the
\* next file event and start its thread.
C17_EventDispatch ==
    /\ \A t \in TaskIds : tasks[t].filename # SUB_DIR
    /\ (\E u \in TaskIds : tasks[u].pc = "unborn") => ENABLED FileEventTaken

\* a second file was dispatched while the first is in its settle delay
C17_Witness ==
    /\ tasks[1].pc = "sleep"
    /\ tasks[2].pc = "start"

(***************************************************************************)
(* Queries running beside each other over a store that does not change     *)
(***************************************************************************)
PairStore == <<Entry(A_JPG, V10), Entry(B_JPG, V01)>>

PairImages == {Photo(<<V10>>), Photo(<<V01>>)}

PairInit ==
    /\ face_database = PairStore
    /\ db_file = SaveAlone(PairStore)
    /\ tasks = [t \in TaskIds |-> NoTask]
    /\ crashed = FALSE
    /\ temp_file = <<>>
    /\ queries = [q \in QueryIds |-> IdleQuery]
    /\ main = Serving

PairNext ==
    \/ \E q \in QueryIds : QBegin(q, PairImages)
    \/ \E q \in QueryIds : QSave(q)
    \/ \E q \in QueryIds : QRepresent(q)
    \/ \E q \in QueryIds : QScan(q)
    \/ \E q \in QueryIds : QScanRaise(q)
    \/ \E q \in QueryIds : QExists(q)
    \/ \E q \in QueryIds : QRemove(q)

PairSpec == PairInit /\ [][PairNext]_vars

\* C18: a query that uploaded a photo and met no error of its own answers
\* with the search of its own upload over the store, as it would alone.
C18_QueriesIsolated ==
    \A q \in QueryIds :
        (queries[q].pc = "responded" /\ queries[q].err = "none"
            /\ queries[q].upload.kind = "photo") =>
            Range(queries[q].matches) = SearchOver(queries[q].upload.faces, face_database)

(***************************************************************************)
(* Ingestion of new photos with one query scanning beside it               *)
(***************************************************************************)
GrowNames == {A_JPG}

GrowImages == {Photo(<<V10>>)}

GrowNext ==
    \/ OnCreatedFrom(GrowNames)
    \/ \E t \in TaskIds : ProcessStart(t)
    \/ \E t \in TaskIds : Extract(t)
    \/ \E t \in TaskIds : AppendFace(t)
    \/ \E t \in TaskIds : SaveOpen(t)
    \/ \E t \in TaskIds : SaveWrite(t)
    \/ \E t \in TaskIds : SaveClose(t)
    \/ \E q \in QueryIds : QBegin(q, GrowImages)
    \/ \E q \in QueryIds : QSave(q)
    \/ \E q \in QueryIds : QRepresent(q)
    \/ \E q \in QueryIds : QScan(q)
    \/ \E q \in QueryIds : QScanRaise(q)
    \/ \E q \in QueryIds : QExists(q)
    \/ \E q \in QueryIds : QRemove(q)

GrowSpec == QInit /\ [][GrowNext]_vars

IsPrefix(s, t) == Len(s) <= Len(t) /\ SubSeq(t, 1, Len(s)) = s

\* C19: once the watcher runs, every step leaves the store as it was or
\* longer with its old records first, and a step of a query changes neither
\* the store nor database.pkl.
C19_AppendOnly ==
    [][/\ IsPrefix(face_database, face_database')
       /\ queries' # queries =>
             (face_database' = face_database /\ db_file' = db_file)]_vars

\* the store grew while a query was scanning it
C19_Witness ==
    /\ queries[1].pc = "responded"
    /\ queries[1].selfie # <<>>
    /\ queries[1].len0 < queries[1].len1

\* the records of the list s that reference filename
CountPath(s, filename) == Cardinality({i \in 1..Len(s) : s[i].path = filename})

\* the tasks that processed filename to the end
ProcessedBy(filename) ==
    {t \in TaskIds : tasks[t].pc = "done" /\ tasks[t].filename = filename}

\* C20, its part on finite runs: once every started task has ended, with no
\* crash and no persist failure, database.pkl loads and holds, for every
\* file in which the provider found k >= 1 faces, k records per task that
\* processed it; also when no two events name the same file.
C20_CompletesAndPersists ==
    (~crashed /\ NoPersistFailed /\ DistinctPaths
        /\ \A t \in TaskIds : tasks[t].pc \in {"unborn", "done"}) =>
        \A t \in TaskIds :
            (tasks[t].pc = "done" /\ tasks[t].results # <<>>) =>
                /\ Loadable
                /\ CountPath(Unpickle(db_file[1]), tasks[t].filename) >=
                       Len(tasks[t].results) * Cardinality(ProcessedBy(tasks[t].filename))

====
